---- MODULE Spec2Model ----
(***************************************************************************)
(* Model of src/main.py: the /crawl handler that fetches the HSX           *)
(* non-margin list page by page over HTTP (get_hsx_list_all), walks the    *)
(* HNX table with a Playwright browser (crawl_hnx_data), concatenates the  *)
(* two frames, converts the dates and answers with JSON (main_handler).    *)
(*                                                                         *)
(* Texts are sequences of small naturals (0 is a blank, Dash the "-"       *)
(* character, SpanOpen/SpanClose the <span> and </span> tags); a date text *)
(* "dd/mm/yyyy" is the triple <<dd, mm, yyyy>>.                            *)
(***************************************************************************)
EXTENDS Integers, Sequences, FiniteSets, TLC

\* ------------------------------------------------------------ constants
\* get_hsx_list_all(max_pages = 100), called with the default by main_handler
max_pages == 100
\* crawl_hnx_data(max_iterations = 50), called with the default by main_handler
max_iterations == 50
\* the seven column names handed to pd.DataFrame in get_hsx_list
NumColumns == 7
\* crawl_current_page_from_html keeps a <tr> with at least five <td>
MinTds == 5

\* ------------------------------------------------------------ bounds
\* rows on one HSX page of the varied API source
MaxApiRows == 2
\* non-empty pages the varied API source can serve before it runs dry
MaxApiPages == 2
\* rows of one HNX table page of the varied site
MaxHnxRows == 2
\* highest ticker number the varied HNX site lists
MaxTicker == 3
\* table pages the varied HNX site has
MaxHnxPages == 2

Requests == {1, 2}

Blank == 0
Dash == 7
SpanOpen == 8
SpanClose == 9

GoodDate == <<1, 2, 2023>>
BadDate == <<31, 2, 2023>>
\* what Series.dt.strftime leaves for a NaT: a float NaN
NaN == <<>>

\* ------------------------------------------------------------ text helpers
RECURSIVE LStrip(_)
LStrip(s) == IF s # <<>> /\ Head(s) = Blank THEN LStrip(Tail(s)) ELSE s

RECURSIVE RStrip(_)
RStrip(s) ==
    IF s # <<>> /\ s[Len(s)] = Blank THEN RStrip(SubSeq(s, 1, Len(s) - 1)) ELSE s

\* str.strip() / get_text(strip=True)
Strip(s) == RStrip(LStrip(s))

IsTag(c) == c \in {SpanOpen, SpanClose}
NotTag(c) == ~IsTag(c)

\* every <span> is replaced by its text, then the text of the soup is read
remove_nested_spans(html_content) == SelectSeq(html_content, NotTag)

NotDash(c) == c # Dash

RECURSIVE DropDashBlank(_)
\* str.replace('- ', ''): every "- " pair goes, left to right
DropDashBlank(s) ==
    IF Len(s) < 2 THEN s
    ELSE IF s[1] = Dash /\ s[2] = Blank THEN DropDashBlank(SubSeq(s, 3, Len(s)))
    ELSE <<s[1]>> \o DropDashBlank(Tail(s))

\* .replace('- ', '').replace('-', '')
CleanReason(s) == SelectSeq(DropDashBlank(s), NotDash)

\* ------------------------------------------------------------ dates
IsLeap(y) == (y % 4 = 0 /\ y % 100 # 0) \/ y % 400 = 0

DaysIn(m, y) ==
    IF m = 2 THEN (IF IsLeap(y) THEN 29 ELSE 28)
    ELSE IF m \in {4, 6, 9, 11} THEN 30 ELSE 31

\* does strptime accept the text under '%d/%m/%Y'
ParsesAsDate(t) ==
    /\ Len(t) = 3
    /\ t[2] \in 1..12
    /\ t[1] \in 1..DaysIn(t[2], t[3])
    /\ t[3] \in 1..9999

\* pd.to_datetime(format='%d/%m/%Y', errors='coerce') then dt.strftime('%Y-%m-%d'):
\* "dd/mm/yyyy" becomes "yyyy-mm-dd", anything else NaT and then NaN
ConvertDate(t) == IF ParsesAsDate(t) THEN <<t[3], t[2], t[1]>> ELSE NaN

ConvertRecord(rec) == [rec EXCEPT !.date = ConvertDate(rec.date)]

ConvertDates(df) == [i \in 1..Len(df) |-> ConvertRecord(df[i])]

\* ------------------------------------------------------------ HSX rows
\* the cell pandas puts where a short row has no value
None == <<-1>>

Max(S) == CHOOSE x \in S : \A y \in S : y <= x

\* columns of the object array pandas builds from a list of lists: the longest row
FrameWidth(all_cells) == Max({Len(all_cells[i]) : i \in 1..Len(all_cells)})

\* a shorter row is filled up with None
Pad(cell, w) == [i \in 1..w |-> IF i <= Len(cell) THEN cell[i] ELSE None]

\* the columns are bound to the 7 names only when the array has 7 columns
FrameBuilds(all_cells) == FrameWidth(all_cells) = NumColumns

\* columns id, ticker, code1, code2, name, date, reason by position; id, code1 and
\* code2 are dropped, ticker is stripped, reason loses its spans
HsxRecord(c) ==
    [ticker |-> IF c[2] = None THEN None ELSE Strip(c[2]),
     name |-> c[5],
     date |-> c[6],
     reason |-> remove_nested_spans(c[7]),
     exchange |-> "HOSE"]

RequestError == "Loi khi request HSX"
FrameError == "Loi khi tao DataFrame tu HSX"
\* BeautifulSoup(None) in remove_nested_spans: a TypeError nobody wraps
MarkupError == "TypeError"

\* get_hsx_list on the answer of one GET: the frame, or the error it raises
get_hsx_list(resp) ==
    IF ~resp.ok THEN [err |-> RequestError, df |-> <<>>]
    ELSE IF resp.rows = <<>> THEN [err |-> "", df |-> <<>>]
    ELSE IF ~FrameBuilds(resp.rows) THEN [err |-> FrameError, df |-> <<>>]
    ELSE IF \E i \in 1..Len(resp.rows) : Len(resp.rows[i]) < NumColumns
         THEN [err |-> MarkupError, df |-> <<>>]
    ELSE [err |-> "",
          df |-> [i \in 1..Len(resp.rows) |-> HsxRecord(Pad(resp.rows[i], NumColumns))]]

RECURSIVE Flatten(_)
\* pd.concat(frames, ignore_index=True): the rows of the frames, frame after frame
Flatten(frames) ==
    IF frames = <<>> THEN <<>> ELSE Head(frames) \o Flatten(Tail(frames))

\* ------------------------------------------------------------ the HSX source
TickerText(id) == IF id % 2 = 0 THEN <<id, Blank>> ELSE <<id>>

RawReason == <<SpanOpen, 5, SpanOpen, Blank, SpanClose, 6, SpanClose>>

Defects == {"none", "baddate", "short", "long"}

\* one raw row {'cell': [...]}: 7 cells, or 6 ("short"), or 8 ("long")
ApiRow(id, defect) ==
    LET full == << <<id>>, TickerText(id), <<>>, <<>>, <<4, id>>,
                   IF defect = "baddate" THEN BadDate ELSE GoodDate, RawReason >>
    IN  IF defect = "short" THEN SubSeq(full, 1, NumColumns - 1)
        ELSE IF defect = "long" THEN Append(full, <<>>)
        ELSE full

\* page n of the source with len rows, the last of them carrying the defect;
\* the ids run on from page to page
ApiPage(n, len, defect) ==
    [i \in 1..len |-> ApiRow((n - 1) * MaxApiRows + i, IF i = len THEN defect ELSE "none")]

Fails == [ok |-> FALSE, rows |-> <<>>]
Serves(rows) == [ok |-> TRUE, rows |-> rows]

\* the sources a run may face: "api" a varied HSX source and a plain HNX site,
\* "web" a plain HSX source and a varied HNX site with failing browser calls,
\* "endless" sources that never run dry, "pair" small sources, "six" an HNX site
\* of two pages with three rows each
Scenarios == {"api", "web", "endless", "pair", "six"}

\* what the HSX endpoint may answer to the GET of page n
HsxResponses(e, n) ==
    IF e = "api" THEN
        {Fails} \cup
        {Serves(ApiPage(n, len, d)) :
            len \in 0..(IF n <= MaxApiPages THEN MaxApiRows ELSE 0),
            d \in Defects}
    ELSE IF e = "endless" THEN {Serves(ApiPage(n, 1, "none"))}
    ELSE IF n = 1 THEN {Serves(<<>>), Serves(ApiPage(1, 2, "none"))}
    ELSE {Serves(<<>>)}

\* ------------------------------------------------------------ HNX pages
HnxReason == <<Dash, Blank, 5, Dash, 6>>

\* the ticker of row i of a table that starts at ticker s: they run on, but a
\* "twin" last row repeats the ticker of the row above it
RowTicker(s, i, len, defect) ==
    IF defect = "twin" /\ i = len /\ i > 1 THEN s + i - 2 ELSE s + i - 1

\* one <tr>: five <td> (no, ticker, name, date, reason), or four ("short")
HnxRow(t, defect) ==
    LET full == << <<t>>, <<Blank, t, Blank>>, <<4, t>>,
                   IF defect = "baddate" THEN BadDate ELSE GoodDate, HnxReason >>
    IN  IF defect = "short" THEN SubSeq(full, 1, MinTds - 1) ELSE full

\* a rendered page: the table with the tickers s, s+1, ... and the #next control
HnxTable(s, len, defect, next) ==
    [table |-> TRUE,
     rows |-> [i \in 1..len |->
                HnxRow(RowTicker(s, i, len, defect), IF i = len THEN defect ELSE "none")],
     next |-> next]

NoTable == [table |-> FALSE, rows |-> <<>>, next |-> "absent"]

NextStates(i) ==
    IF i < MaxHnxPages THEN {"absent", "disabled", "enabled"} ELSE {"absent", "disabled"}

\* what the HNX site may render as the i-th page of one crawl
HnxDoms(e, i) ==
    IF e = "web" THEN
        {NoTable, HnxTable(1, 2, "baddate", "absent"), HnxTable(1, 2, "short", "absent"),
         HnxTable(1, 2, "twin", "absent")}
        \cup {HnxTable(s, len, "none", nx) :
                s \in 1..MaxTicker, len \in 0..MaxHnxRows, nx \in NextStates(i)}
    ELSE IF e = "endless" THEN {HnxTable(i, 1, "none", "enabled")}
    ELSE IF e = "six" THEN
        {HnxTable(3 * i - 2, 3, "none", IF i = 1 THEN "enabled" ELSE "absent")}
    ELSE {HnxTable(1, 2, "none", "absent"), HnxTable(1, 0, "none", "absent")}

\* the scenarios in which a browser call may raise
Faulty(e) == e \in {"web", "pair"}

KeepsRow(columns) == Len(columns) >= MinTds

HnxRecord(columns) ==
    [ticker |-> Strip(columns[2]),
     name |-> Strip(columns[3]),
     date |-> Strip(columns[4]),
     reason |-> CleanReason(Strip(columns[5])),
     exchange |-> "HNX"]

\* crawl_current_page_from_html: one record per <tr> of the table with 5 cells or more
crawl_current_page_from_html(html) ==
    LET kept == SelectSeq(html.rows, KeepsRow)
    IN  IF html.table THEN [i \in 1..Len(kept) |-> HnxRecord(kept[i])] ELSE <<>>

\* a filter that lets every row through
NewRows_all(df_new, seen_) == df_new

RECURSIVE NewRows(_, _)
\* df_new[~df_new['ticker'].isin(seen)]
NewRows(df_new, seen_) ==
    IF df_new = <<>> THEN <<>>
    ELSE IF Head(df_new).ticker \in seen_ THEN NewRows(Tail(df_new), seen_)
    ELSE <<Head(df_new)>> \o NewRows(Tail(df_new), seen_)

Tickers(df) == {df[i].ticker : i \in 1..Len(df)}

\* the set replaced where it should grow
Remember_reset(seen_, new_rows) == Tickers(new_rows)

\* seen.update(new_rows['ticker'].tolist())
Remember(seen_, new_rows) == seen_ \cup Tickers(new_rows)

\* a concat that puts the new rows in front
Accumulate_front(all, new) == new \o all

\* pd.concat([all_data, new_rows], ignore_index=True)
Accumulate(all, new) == all \o new

\* the frames handed to concat the other way round
Combine_swapped(hsx, hnx) == hnx \o hsx

\* pd.concat([hsx_all, hnx_all], ignore_index=True)
Combine(hsx, hnx) == hsx \o hnx

\* ------------------------------------------------------------ state
VARIABLES
    env,          \* the scenario the sources follow
    pc,           \* where each request's main_handler stands
    page,         \* get_hsx_list_all: the page to ask for next
    data_frames,  \* get_hsx_list_all: the frames collected
    hsx_all,      \* main_handler: what get_hsx_list_all returned
    all_data,     \* crawl_hnx_data: the rows kept so far
    seen,         \* crawl_hnx_data: the tickers kept so far
    iteration,    \* crawl_hnx_data: loop counter
    pw,           \* the request's browser and its page
    dom,          \* what the browser page currently renders
    loads,        \* table pages the site has rendered in this crawl
    log,          \* why the crawl loop was left (its logging.info line)
    response,     \* the answer to the request
    requests,     \* the HSX pages asked for, in order
    served,       \* the raw pages the HSX endpoint answered with, in order
    clicks,       \* the state of #next at each click that went through
    fault,        \* the browser call that raised, if one did
    walk          \* per page the crawl read: the rows it showed, the rows kept

locals == <<page, data_frames, hsx_all, all_data, seen, iteration>>
browser == <<pw, dom, loads, clicks, fault, walk>>
vars == <<env, pc, page, data_frames, hsx_all, all_data, seen, iteration, pw, dom,
          loads, log, response, requests, served, clicks, fault, walk>>

NoBrowser == [browser |-> "none", page |-> FALSE]
NoResponse == [status |-> 0, detail |-> "", content |-> [data |-> <<>>]]

Start(active, scenarios) ==
    /\ env \in scenarios
    /\ pc = [r \in Requests |-> IF r \in active THEN "idle" ELSE "off"]
    /\ page = [r \in Requests |-> 1]
    /\ data_frames = [r \in Requests |-> <<>>]
    /\ hsx_all = [r \in Requests |-> <<>>]
    /\ all_data = [r \in Requests |-> <<>>]
    /\ seen = [r \in Requests |-> {}]
    /\ iteration = [r \in Requests |-> 0]
    /\ pw = [r \in Requests |-> NoBrowser]
    /\ dom = [r \in Requests |-> NoTable]
    /\ loads = [r \in Requests |-> 0]
    /\ log = [r \in Requests |-> ""]
    /\ response = [r \in Requests |-> NoResponse]
    /\ requests = [r \in Requests |-> <<>>]
    /\ served = [r \in Requests |-> <<>>]
    /\ clicks = [r \in Requests |-> <<>>]
    /\ fault = [r \in Requests |-> ""]
    /\ walk = [r \in Requests |-> <<>>]

\* one GET /crawl
Init == Start({1}, {"api", "web", "endless", "six"})

\* two GET /crawl on the one event loop
InitConc == Start(Requests, {"pair", "endless"})

\* get_hsx_list_all never awaits: while one request is inside it the event loop
\* runs no other coroutine
Runnable(r) == \A q \in Requests \ {r} : pc[q] # "hsx"

\* an exit that leaves the browser and its page as they are
StopPlaywright_leak(b) == b

\* leaving `async with async_playwright()`: the driver stops and takes the
\* browser and its pages with it
StopPlaywright(b) ==
    [browser |-> IF b.browser = "live" THEN "closed" ELSE b.browser, page |-> FALSE]

\* await browser.close()
CloseBrowser(b) == [browser |-> "closed", page |-> FALSE]

\* main_handler's except: every exception becomes HTTPException(500, str(e))
Failure(detail) == [status |-> 500, detail |-> detail, content |-> [data |-> <<>>]]

\* JSONResponse(content={"data": result})
Success(result) == [status |-> 200, detail |-> "", content |-> [data |-> result]]

\* an answer that never reaches the client
Raise_silent(r, detail) ==
    /\ response' = response
    /\ pc' = [pc EXCEPT ![r] = "done"]

\* an exception that leaves main_handler's try block
Raise(r, detail) ==
    /\ response' = [response EXCEPT ![r] = Failure(detail)]
    /\ pc' = [pc EXCEPT ![r] = "done"]

\* an HSX error that is dropped: the handler goes on to the crawl
OnHsxError_swallowed(r, detail) ==
    /\ response' = response
    /\ pc' = [pc EXCEPT ![r] = "launch"]

\* the HTTPException of get_hsx_list passes through get_hsx_list_all and ends
\* main_handler in its except
OnHsxError(r, detail) == Raise(r, detail)

\* one page too many
WithinCeiling_late(p) == p <= max_pages + 1

\* `while page <= max_pages`
WithinCeiling(p) == p <= max_pages

\* one turn too many
MoreIterations_late(i) == i <= max_iterations

\* `while iteration < max_iterations`
MoreIterations(i) == i < max_iterations

\* ------------------------------------------------------------ main_handler
Receive(r) ==
    /\ pc[r] = "idle"
    /\ Runnable(r)
    /\ pc' = [pc EXCEPT ![r] = "hsx"]
    /\ page' = [page EXCEPT ![r] = 1]
    /\ data_frames' = [data_frames EXCEPT ![r] = <<>>]
    /\ UNCHANGED <<env, hsx_all, all_data, seen, iteration, browser, log, response,
                   requests, served>>

\* get_hsx_list_all returns and crawl_hnx_data starts
EnterCrawl(r) ==
    /\ hsx_all' = [hsx_all EXCEPT ![r] = Flatten(data_frames[r])]
    /\ all_data' = [all_data EXCEPT ![r] = <<>>]
    /\ seen' = [seen EXCEPT ![r] = {}]
    /\ pc' = [pc EXCEPT ![r] = "launch"]
    /\ UNCHANGED <<page, data_frames, iteration, response>>

\* one turn of the while loop of get_hsx_list_all: get_hsx_list(page)
HsxGet(r) ==
    /\ pc[r] = "hsx"
    /\ WithinCeiling(page[r])
    /\ \E resp \in HsxResponses(env, page[r]) :
        LET out == get_hsx_list(resp) IN
        /\ requests' = [requests EXCEPT ![r] = Append(@, page[r])]
        /\ served' = [served EXCEPT ![r] = IF resp.ok THEN Append(@, resp.rows) ELSE @]
        /\ IF out.err # "" THEN
                /\ OnHsxError(r, out.err)
                /\ UNCHANGED locals
           ELSE IF out.df = <<>> THEN
                EnterCrawl(r)
           ELSE /\ data_frames' = [data_frames EXCEPT ![r] = Append(@, out.df)]
                /\ page' = [page EXCEPT ![r] = @ + 1]
                /\ UNCHANGED <<pc, hsx_all, all_data, seen, iteration, response>>
    /\ UNCHANGED <<env, browser, log>>

\* the while condition fails: max_pages pages were read
HsxCeiling(r) ==
    /\ pc[r] = "hsx"
    /\ ~WithinCeiling(page[r])
    /\ EnterCrawl(r)
    /\ UNCHANGED <<env, browser, log, requests, served>>

\* ------------------------------------------------------------ crawl_hnx_data
\* may the browser call succeed, may it raise
Outcomes(e) == IF Faulty(e) THEN {TRUE, FALSE} ELSE {TRUE}

\* a browser call raises outside any try: the `async with` block is left by the
\* exception, which then reaches main_handler's except
Abort(r, call) ==
    /\ fault' = [fault EXCEPT ![r] = call]
    /\ pw' = [pw EXCEPT ![r] = StopPlaywright(@)]
    /\ Raise(r, call)

\* a `continue` where the `break` stands
AfterBreak_continue == "loop"

\* where `break` leads: past the loop, to browser.close()
AfterBreak == "close"

\* a `break` of the crawl loop with its logging.info line
Break(r, why) ==
    /\ log' = [log EXCEPT ![r] = why]
    /\ pc' = [pc EXCEPT ![r] = AfterBreak]

\* browser = await p.chromium.launch(...)
Launch(r) ==
    /\ pc[r] = "launch"
    /\ Runnable(r)
    /\ \E ok \in Outcomes(env) :
        IF ok THEN
            /\ pw' = [pw EXCEPT ![r] = [browser |-> "live", page |-> FALSE]]
            /\ pc' = [pc EXCEPT ![r] = "new_page"]
            /\ UNCHANGED <<fault, response>>
        ELSE Abort(r, "launch")
    /\ UNCHANGED <<env, locals, dom, loads, clicks, log, requests, served, walk>>

\* page = await browser.new_page()
NewPage(r) ==
    /\ pc[r] = "new_page"
    /\ Runnable(r)
    /\ \E ok \in Outcomes(env) :
        IF ok THEN
            /\ pw' = [pw EXCEPT ![r].page = TRUE]
            /\ pc' = [pc EXCEPT ![r] = "goto"]
            /\ UNCHANGED <<fault, response>>
        ELSE Abort(r, "new_page")
    /\ UNCHANGED <<env, locals, dom, loads, clicks, log, requests, served, walk>>

\* await page.goto(url); iteration = 0
Goto(r) ==
    /\ pc[r] = "goto"
    /\ Runnable(r)
    /\ \/ \E d \in HnxDoms(env, 1) :
            /\ dom' = [dom EXCEPT ![r] = d]
            /\ loads' = [loads EXCEPT ![r] = 1]
            /\ iteration' = [iteration EXCEPT ![r] = 0]
            /\ pc' = [pc EXCEPT ![r] = "loop"]
            /\ UNCHANGED <<fault, pw, response>>
       \/ /\ Faulty(env)
          /\ Abort(r, "goto")
          /\ UNCHANGED <<dom, loads, iteration>>
    /\ UNCHANGED <<env, page, data_frames, hsx_all, all_data, seen, clicks, log,
                   requests, served, walk>>

\* a wait whose timeout nobody notices
TableFound_always(d) == TRUE

\* the table is there for wait_for_selector("table#_tableDatas") to find
TableFound(d) == d.table

\* one turn of the crawl loop up to the concat: wait for the table, read the page,
\* keep the rows whose ticker is new
Extract(r) ==
    /\ pc[r] = "loop"
    /\ Runnable(r)
    /\ MoreIterations(iteration[r])
    /\ iteration' = [iteration EXCEPT ![r] = @ + 1]
    /\ LET df_new == crawl_current_page_from_html(dom[r])
           new_rows == NewRows(df_new, seen[r])
       IN  \/ /\ ~TableFound(dom[r])
              /\ Break(r, "no_table")
              /\ UNCHANGED <<all_data, seen, pw, fault, response, walk>>
           \/ /\ TableFound(dom[r])
              /\ Faulty(env)
              /\ Abort(r, "content")
              /\ UNCHANGED <<all_data, seen, log, walk>>
           \/ /\ TableFound(dom[r])
              /\ walk' = [walk EXCEPT ![r] = Append(@, [shown |-> df_new, kept |-> new_rows])]
              /\ IF df_new = <<>> THEN
                    /\ Break(r, "empty")
                    /\ UNCHANGED <<all_data, seen>>
                 ELSE IF new_rows = <<>> THEN
                    /\ Break(r, "duplicates")
                    /\ UNCHANGED <<all_data, seen>>
                 ELSE
                    /\ seen' = [seen EXCEPT ![r] = Remember(@, new_rows)]
                    /\ all_data' = [all_data EXCEPT ![r] = Accumulate(@, new_rows)]
                    /\ pc' = [pc EXCEPT ![r] = "next"]
                    /\ UNCHANGED log
              /\ UNCHANGED <<pw, fault, response>>
    /\ UNCHANGED <<env, page, data_frames, hsx_all, dom, loads, clicks, requests, served>>

\* the while condition fails: max_iterations turns were made
LoopCeiling(r) ==
    /\ pc[r] = "loop"
    /\ Runnable(r)
    /\ ~MoreIterations(iteration[r])
    /\ pc' = [pc EXCEPT ![r] = "close"]
    /\ UNCHANGED <<env, locals, browser, log, response, requests, served>>

\* `if not next_button`
NextButtonMissing(d) == d.next = "absent"

\* an exception that is not caught: it leaves the crawl
CaughtNextError_uncaught(r, call) ==
    /\ Abort(r, call)
    /\ UNCHANGED log

\* `except Exception` around the next step: log and break
CaughtNextError(r, call) ==
    /\ fault' = [fault EXCEPT ![r] = call]
    /\ Break(r, "next_error")
    /\ UNCHANGED <<pw, response>>

\* the rest of the turn, inside its own try: find #next, click it, wait for the table
NextPage(r) ==
    /\ pc[r] = "next"
    /\ Runnable(r)
    /\ \/ /\ Faulty(env)
          /\ CaughtNextError(r, "query_selector")
          /\ UNCHANGED <<dom, loads, clicks>>
       \/ /\ NextButtonMissing(dom[r])
          /\ Break(r, "no_next")
          /\ UNCHANGED <<dom, loads, clicks, fault, pw, response>>
       \/ \* the click raises: a timeout, a detached element, or Playwright waiting
          \* in vain for a disabled form control to become enabled
          /\ ~NextButtonMissing(dom[r])
          /\ Faulty(env) \/ dom[r].next # "enabled"
          /\ CaughtNextError(r, "click")
          /\ UNCHANGED <<dom, loads, clicks>>
       \/ \* the click goes through and the site renders its next page
          /\ ~NextButtonMissing(dom[r])
          /\ dom[r].next = "enabled"
          /\ \E d \in HnxDoms(env, loads[r] + 1) :
                /\ dom' = [dom EXCEPT ![r] = d]
                /\ loads' = [loads EXCEPT ![r] = @ + 1]
                /\ clicks' = [clicks EXCEPT ![r] = Append(@, "enabled")]
                /\ IF TableFound(d) THEN
                        /\ pc' = [pc EXCEPT ![r] = "loop"]
                        /\ UNCHANGED <<log, fault, pw, response>>
                   ELSE CaughtNextError(r, "wait_for_selector")
       \/ \* the click goes through and the table is found, but the page renders
          \* anew without it during the half second the crawl then waits
          /\ ~NextButtonMissing(dom[r])
          /\ dom[r].next = "enabled"
          /\ Faulty(env)
          /\ dom' = [dom EXCEPT ![r] = NoTable]
          /\ loads' = [loads EXCEPT ![r] = @ + 1]
          /\ clicks' = [clicks EXCEPT ![r] = Append(@, "enabled")]
          /\ pc' = [pc EXCEPT ![r] = "loop"]
          /\ UNCHANGED <<log, fault, pw, response>>
       \/ \* the click goes through on a control that only looks disabled (a css
          \* class): the site stays on the page it shows
          /\ ~NextButtonMissing(dom[r])
          /\ dom[r].next = "disabled"
          /\ clicks' = [clicks EXCEPT ![r] = Append(@, "disabled")]
          /\ pc' = [pc EXCEPT ![r] = "loop"]
          /\ UNCHANGED <<dom, loads, log, fault, pw, response>>
    /\ UNCHANGED <<env, locals, requests, served, walk>>

\* await browser.close(), the `async with` block ends, return all_data
Close(r) ==
    /\ pc[r] = "close"
    /\ Runnable(r)
    /\ pw' = [pw EXCEPT ![r] = StopPlaywright(CloseBrowser(@))]
    /\ pc' = [pc EXCEPT ![r] = "respond"]
    /\ UNCHANGED <<env, locals, dom, loads, clicks, fault, walk, log, response, requests,
                   served>>

\* json.dumps(allow_nan=False) in JSONResponse refuses a NaN
JsonCompliant(result) == \A i \in 1..Len(result) : result[i].date # NaN

\* the rest of main_handler: concat, date conversion, to_dict, JSONResponse
Respond(r) ==
    /\ pc[r] = "respond"
    /\ Runnable(r)
    /\ LET combined_df == Combine(hsx_all[r], all_data[r])
           result == ConvertDates(combined_df)
       IN  response' = [response EXCEPT ![r] =
                IF combined_df = <<>> THEN Failure("KeyError")
                ELSE IF ~JsonCompliant(result) THEN Failure("ValueError")
                ELSE Success(result)]
    /\ pc' = [pc EXCEPT ![r] = "done"]
    /\ UNCHANGED <<env, locals, browser, log, requests, served>>

Next ==
    \E r \in Requests :
        \/ Receive(r)
        \/ HsxGet(r)
        \/ HsxCeiling(r)
        \/ Launch(r)
        \/ NewPage(r)
        \/ Goto(r)
        \/ Extract(r)
        \/ LoopCeiling(r)
        \/ NextPage(r)
        \/ Close(r)
        \/ Respond(r)

Spec == Init /\ [][Next]_vars

SpecConc == InitConc /\ [][Next]_vars

\* every call of the handler returns or times out, and the event loop resumes the
\* handler after each of them: a step that can be taken is taken
SpecLive == Init /\ [][Next]_vars /\ WF_vars(Next)

\* ------------------------------------------------------------ properties
HsxErrors == {RequestError, FrameError, MarkupError}

\* the request ended inside get_hsx_list_all
HsxFailed(r) == response[r].status = 500 /\ response[r].detail \in HsxErrors

\* get_hsx_list_all has returned its frame
HsxReturned(r) == pc[r] \notin {"off", "idle", "hsx"} /\ ~HsxFailed(r)

\* every GET so far was answered with a page
AllAnswered(r) == Len(served[r]) = Len(requests[r])

RawIds(rows) == [i \in 1..Len(rows) |-> rows[i][1][1]]
RecordIds(df) == [i \in 1..Len(df) |-> df[i].ticker[1]]

HasAllColumns(cell) == Len(cell) >= NumColumns

\* every row of every page has the 7 cells the normalization reads, or more
WellFormed(pages) ==
    \A i \in 1..Len(pages) : \A j \in 1..Len(pages[i]) : HasAllColumns(pages[i][j])

\* C1: for pages 1..k-1 non-empty and page k the first empty one, get_hsx_list_all
\* returns exactly the rows of pages 1..k-1 in page and row order, asks for the
\* pages 1..k once each in increasing order and never for page k+1. As a state
\* predicate: the pages asked for are 1, 2, 3, ... in order; an empty page is the
\* last one asked for; once every GET has been answered with rows of 7 cells or
\* more the function has not failed; and after the empty page its result lists
\* the rows served before it.
C1_FetchAllReturnsPages ==
    \A r \in Requests :
        /\ requests[r] = [i \in 1..Len(requests[r]) |-> i]
        /\ \A i \in 1..Len(served[r]) :
              served[r][i] = <<>> => i = Len(served[r]) /\ AllAnswered(r)
        /\ (AllAnswered(r) /\ WellFormed(served[r])) => ~HsxFailed(r)
        /\ (HsxReturned(r) /\ served[r] # <<>> /\ served[r][Len(served[r])] = <<>>)
              => RecordIds(hsx_all[r]) = RawIds(Flatten(served[r]))

\* The pagination of get_hsx_list_all taken alone, whatever the rows do to
\* get_hsx_list: increasing requests, nothing asked after the empty page, and the
\* rows of the pages before it as the result when the function returns.
HsxPagination ==
    \A r \in Requests :
        /\ requests[r] = [i \in 1..Len(requests[r]) |-> i]
        /\ \A i \in 1..Len(served[r]) :
              served[r][i] = <<>> => i = Len(served[r]) /\ AllAnswered(r)
        /\ (HsxReturned(r) /\ served[r] # <<>> /\ served[r][Len(served[r])] = <<>>)
              => RecordIds(hsx_all[r]) = RawIds(Flatten(served[r]))

\* C2: a raw row with fewer than 7 cells is left out of the normalized rows without
\* failing the page or the run, a row with 7 cells or more is normalized by
\* position and kept: no run fails on the cell count of a row, and every frame
\* collected holds the rows of its page that have 7 cells or more.
C2_ShortRowsDropped ==
    \A r \in Requests :
        /\ response[r].detail \notin {FrameError, MarkupError}
        /\ \A i \in 1..Len(data_frames[r]) :
              RecordIds(data_frames[r][i]) = RawIds(SelectSeq(served[r][i], HasAllColumns))

Occurrences(seq, x) == Cardinality({i \in 1..Len(seq) : seq[i] = x})

\* C3: a fallible operation runs under the retry policy: it is given up only after
\* its third attempt has failed. For the page fetch: a run that ended on a failed
\* GET has asked for that page three times.
C3_FailureAfterThirdAttempt ==
    \A r \in Requests :
        response[r].detail = RequestError
            => Occurrences(requests[r], requests[r][Len(requests[r])]) = 3

\* C4 as stated: once #next is absent or reports disabled, no further click is
\* performed: every click that went through found the control enabled.
C4_NoClickUnlessEnabled ==
    \A r \in Requests : \A i \in 1..Len(clicks[r]) : clicks[r][i] = "enabled"

\* the crawl loop is over for good
CrawlOver(r) == pc[r] \in {"close", "respond", "done"}

\* the rows the crawl returned, as the response lists them after the HSX rows
HnxPart(r) ==
    SubSeq(response[r].content.data, Len(hsx_all[r]) + 1, Len(response[r].content.data))

\* C4 amended: once #next is absent on the current page the crawl clicks and loads
\* nothing more, leaves the loop with the rows it holds, and those rows are what
\* a successful response lists for HNX.
C4_AbsentNextEndsCrawl ==
    [][\A r \in Requests :
          ((pc[r] = "next" /\ dom[r].next = "absent") \/ CrawlOver(r))
             => /\ clicks'[r] = clicks[r]
                /\ loads'[r] = loads[r]
                /\ dom'[r] = dom[r]
                /\ all_data'[r] = all_data[r]
                /\ pc'[r] = pc[r] \/ CrawlOver(r)'
                /\ response'[r].status = 200 => HnxPart(r)' = ConvertDates(all_data[r])
      ]_vars

\* a crawl that clicked once, found no #next on the second page and returned the
\* rows of both pages
C4_Witness ==
    \E r \in Requests :
        /\ log[r] = "no_next"
        /\ Len(clicks[r]) = 1
        /\ Len(all_data[r]) >= 2
        /\ response[r].status = 200

\* C5: when an adapter fails for good (a GET fails, a browser call raises) the run
\* ends as a failure: no successful response follows a GET that failed or a
\* navigation, click or wait that raised.
C5_NoSuccessAfterFailure ==
    \A r \in Requests :
        response[r].status = 200 =>
            /\ fault[r] \notin {"goto", "click", "wait_for_selector"}
            /\ AllAnswered(r)

IsIsoDate(d) == Len(d) = 3 /\ ParsesAsDate(<<d[3], d[2], d[1]>>)

Count(df, Test(_)) == Cardinality({i \in 1..Len(df) : Test(df[i])})

HasGoodDate(rec) == ParsesAsDate(rec.date)

\* C6: a record whose date text is no day/month/year date is dropped alone and the
\* run still succeeds, so every record of a successful response has a YYYY-MM-DD
\* date: no run fails on a NaN date, and a successful response lists the records
\* with a valid date, each in YYYY-MM-DD form.
C6_BadDateDropsRecord ==
    \A r \in Requests :
        /\ response[r].detail # "ValueError"
        /\ response[r].status = 200 =>
              /\ \A i \in 1..Len(response[r].content.data) :
                    IsIsoDate(response[r].content.data[i].date)
              /\ Len(response[r].content.data) =
                    Count(hsx_all[r], HasGoodDate) + Count(all_data[r], HasGoodDate)

\* C7: in every successful response the HSX records come first, in the order
\* get_hsx_list_all returned them, then the HNX records in the order
\* crawl_hnx_data returned them.
C7_ApiRecordsFirst ==
    \A r \in Requests :
        response[r].status = 200 =>
            LET data == response[r].content.data
                n == Len(hsx_all[r])
            IN  /\ Len(data) = n + Len(all_data[r])
                /\ \A i \in 1..n :
                      /\ data[i].exchange = "HOSE"
                      /\ data[i].ticker = hsx_all[r][i].ticker
                /\ \A j \in 1..Len(all_data[r]) :
                      /\ data[n + j].exchange = "HNX"
                      /\ data[n + j].ticker = all_data[r][j].ticker

\* a successful response with two records or more from each exchange
C7_Witness ==
    \E r \in Requests :
        /\ response[r].status = 200
        /\ Len(hsx_all[r]) >= 2
        /\ Len(all_data[r]) >= 2

\* C8: every successful response carries metadata whose total is the number of
\* records in its data.
C8_TotalIsLength ==
    \A r \in Requests :
        response[r].status = 200 =>
            /\ "metadata" \in DOMAIN response[r].content
            /\ response[r].content.metadata.total = Len(response[r].content.data)

\* C9: concurrent requests that find no live browser lead to at most one launch:
\* no two requests hold a browser of their own at the same time.
C9_OneLaunch ==
    Cardinality({r \in Requests : pw[r].browser = "live"}) <= 1

\* C10: a crawl that opened a page has released it when it returns or fails,
\* whichever way it leaves the walk.
C10_PageReleased ==
    \A r \in Requests :
        pc[r] \in {"respond", "done"} => ~pw[r].page /\ pw[r].browser # "live"

\* a crawl whose page was open when goto or content raised
C10_Witness ==
    \E r \in Requests :
        /\ pc[r] = "done"
        /\ fault[r] \in {"goto", "content"}
        /\ response[r].status = 500
        /\ pw[r] = [browser |-> "closed", page |-> FALSE]

\* C11 as stated: get_hsx_list_all never asks for a page above 50, and a run that
\* collected 50 non-empty pages or more returns the rows of the first 50.
C11_PageCeilingFifty ==
    \A r \in Requests :
        /\ \A i \in 1..Len(requests[r]) : requests[r][i] <= 50
        /\ (HsxReturned(r) /\ Len(data_frames[r]) >= 50)
              => RecordIds(hsx_all[r]) = RawIds(Flatten(SubSeq(served[r], 1, 50)))

\* C11 amended: get_hsx_list_all never asks for a page above 100, and once it has
\* collected 100 non-empty pages it asks for no page 101 and returns the rows of
\* the 100 pages in page order.
C11_PageCeilingHundred ==
    \A r \in Requests :
        /\ \A i \in 1..Len(requests[r]) : requests[r][i] <= 100
        /\ Len(data_frames[r]) <= 100
        /\ (HsxReturned(r) /\ Len(data_frames[r]) = 100)
              => /\ Len(requests[r]) = 100
                 /\ Len(served[r]) = 100
                 /\ RecordIds(hsx_all[r]) = RawIds(Flatten(served[r]))

\* a run that returned from get_hsx_list_all with the rows of 100 pages
C11_Witness ==
    \E r \in Requests :
        /\ HsxReturned(r)
        /\ Len(requests[r]) = 100
        /\ Len(hsx_all[r]) = 100
        /\ \A i \in 1..100 : served[r][i] # <<>>

\* the rows the crawl kept, page after page
Kept(r) == Flatten([j \in 1..Len(walk[r]) |-> walk[r][j].kept])

\* the crawl ended on its while condition: no break, no exception
EndedOnCeiling(r) == CrawlOver(r) /\ ~HsxFailed(r) /\ log[r] = "" /\ fault[r] = ""

\* C12: a crawl makes at most 50 turns of its loop and so at most 50 clicks on
\* #next; a crawl whose every page brought new tickers and an enabled #next ends
\* after the 50th turn, having read 50 pages and clicked 50 times, and the rows of
\* those pages are what a successful response lists for HNX.
C12_AtMostFiftyIterations ==
    \A r \in Requests :
        /\ iteration[r] <= 50
        /\ Len(walk[r]) <= 50
        /\ Len(clicks[r]) <= 50
        /\ EndedOnCeiling(r) =>
              /\ iteration[r] = 50
              /\ Len(walk[r]) = 50
              /\ Len(clicks[r]) = 50
              /\ \A j \in 1..50 : walk[r][j].kept # <<>>
              /\ all_data[r] = Kept(r)
              /\ response[r].status = 200 => HnxPart(r) = ConvertDates(all_data[r])

\* a run answered with the rows of 50 pages after 50 clicks
C12_Witness ==
    \E r \in Requests :
        /\ EndedOnCeiling(r)
        /\ response[r].status = 200
        /\ Len(clicks[r]) = 50
        /\ Len(HnxPart(r)) = 50

\* get_hsx_list raised: a GET went unanswered, or a page served did not make a frame
ApiFailed(r) ==
    \/ ~AllAnswered(r)
    \/ \E i \in 1..Len(served[r]) : get_hsx_list(Serves(served[r][i])).err # ""

\* Playwright was started for the request
BrowserStarted(r) == pw[r] # NoBrowser

\* C13: within one run the two adapters never overlap: Playwright is started only
\* once get_hsx_list_all has returned with every GET answered, no GET is sent
\* after Playwright was started, and when get_hsx_list raised Playwright is never
\* started and no page is loaded or read.
C13_AdaptersInSequence ==
    [][\A r \in Requests :
          /\ (~BrowserStarted(r) /\ BrowserStarted(r)')
                => (HsxReturned(r) /\ AllAnswered(r) /\ ~ApiFailed(r))
          /\ BrowserStarted(r)
                => (requests'[r] = requests[r] /\ served'[r] = served[r])
          /\ ApiFailed(r)'
                => (~BrowserStarted(r)' /\ loads'[r] = 0 /\ walk'[r] = <<>>
                    /\ pc'[r] = "done" /\ HsxFailed(r)')
      ]_vars

\* the browser runs after get_hsx_list_all asked for three pages
C13_Witness ==
    \E r \in Requests :
        /\ BrowserStarted(r)
        /\ loads[r] >= 1
        /\ Len(requests[r]) >= 3
        /\ Len(hsx_all[r]) >= 2

\* the tickers of the pages the crawl has read so far
ShownBefore(r) == UNION {Tickers(walk[r][j].shown) : j \in 1..Len(walk[r])}

\* the turn of the loop reads the page
ReadsPage(r) == Len(walk[r])' = Len(walk[r]) + 1

\* C14: when the page a turn reads brings no ticker that an earlier page of the
\* crawl has not shown, the crawl ends at that page: the loop is left, no row is
\* added, and once the crawl is over there is no further click or page read, so
\* a successful response lists the rows kept before that page.
C14_NoNewTickersEndsCrawl ==
    [][\A r \in Requests :
          /\ (ReadsPage(r) /\ Tickers(crawl_current_page_from_html(dom[r])) \subseteq ShownBefore(r))
                => /\ pc'[r] = "close"
                   /\ log'[r] \in {"empty", "duplicates"}
                   /\ all_data'[r] = all_data[r]
                   /\ clicks'[r] = clicks[r]
          /\ CrawlOver(r)
                => /\ CrawlOver(r)'
                   /\ clicks'[r] = clicks[r]
                   /\ walk'[r] = walk[r]
                   /\ all_data'[r] = all_data[r]
          /\ (log[r] \in {"empty", "duplicates"} /\ response'[r].status = 200)
                => HnxPart(r)' = ConvertDates(all_data[r])
      ]_vars

\* a crawl that clicked, read a page of tickers it had seen, and answered with the
\* rows it held before
C14_Witness ==
    \E r \in Requests :
        /\ log[r] = "duplicates"
        /\ Len(clicks[r]) >= 1
        /\ Len(walk[r]) >= 2
        /\ walk[r][Len(walk[r])].shown # <<>>
        /\ response[r].status = 200
        /\ HnxPart(r) # <<>>

\* the wait for the table at the start of a turn runs into its timeout
WaitTimesOut(r) ==
    /\ pc[r] = "loop"
    /\ iteration[r] < 50
    /\ ~dom[r].table
    /\ pc'[r] # pc[r]

\* C15: a timeout of the wait for the table at the start of a turn ends the crawl
\* cleanly: the loop is left for the close with the rows held so far, nothing is
\* raised, no page is read and nothing clicked from then on, and the run is not
\* answered with a failure of the crawl: a successful response lists the rows
\* held at the timeout.
C15_TableTimeoutEndsCleanly ==
    [][\A r \in Requests :
          /\ WaitTimesOut(r)
                => /\ pc'[r] = "close"
                   /\ log'[r] = "no_table"
                   /\ all_data'[r] = all_data[r]
                   /\ fault'[r] = "" /\ fault[r] = ""
                   /\ response'[r] = response[r]
                   /\ walk'[r] = walk[r]
                   /\ clicks'[r] = clicks[r]
          /\ log[r] = "no_table"
                => /\ CrawlOver(r) /\ CrawlOver(r)'
                   /\ all_data'[r] = all_data[r]
                   /\ walk'[r] = walk[r]
                   /\ clicks'[r] = clicks[r]
                   /\ loads'[r] = loads[r]
                   /\ fault'[r] = ""
                   /\ response'[r].status = 200 => HnxPart(r)' = ConvertDates(all_data[r])
                   /\ response'[r].status = 500 => response'[r].detail \in {"KeyError", "ValueError"}
      ]_vars

\* a crawl that held rows when the wait timed out, answered with them
C15_Witness ==
    \E r \in Requests :
        /\ log[r] = "no_table"
        /\ Len(clicks[r]) >= 1
        /\ Len(all_data[r]) >= 1
        /\ response[r].status = 200
        /\ HnxPart(r) = ConvertDates(all_data[r])

\* C16: the crawl reads one page at a time, in the order its clicks on #next bring
\* them up, and lists the rows page after page, each page in table order. The
\* page just read is the one the browser shows, a page is read only after the
\* goto or a click and loaded only by them, and the rows held are the rows
\* kept of page 1, then of page 2, and so on. For two pages of three rows each
\* without a repeated ticker and no #next on the second, the crawl ends with the
\* six rows, and they are what a successful response lists for HNX.
C16_PageThenRowOrder ==
    \A r \in Requests :
        /\ all_data[r] = Kept(r)
        /\ Len(walk[r]) <= Len(clicks[r]) + 1
        /\ loads[r] <= Len(clicks[r]) + 1
        /\ pc[r] = "next" => walk[r][Len(walk[r])].shown = crawl_current_page_from_html(dom[r])
        /\ (env = "six" /\ CrawlOver(r))
              => /\ RecordIds(all_data[r]) = <<1, 2, 3, 4, 5, 6>>
                 /\ \A i \in 1..6 : all_data[r][i].exchange = "HNX"
                 /\ Len(clicks[r]) = 1
                 /\ log[r] = "no_next"
        /\ (env = "six" /\ pc[r] = "done")
              => /\ response[r].status = 200
                 /\ RecordIds(HnxPart(r)) = <<1, 2, 3, 4, 5, 6>>

\* the run over the two pages of three rows, answered
C16_Witness ==
    \E r \in Requests :
        /\ env = "six"
        /\ pc[r] = "done"
        /\ Len(walk[r]) = 2
        /\ Len(walk[r][1].kept) = 3
        /\ Len(walk[r][2].kept) = 3
        /\ Len(HnxPart(r)) = 6

\* the tickers of the rows read from the pages before page j of the crawl
ShownEarlier(r, j) == UNION {Tickers(walk[r][i].shown) : i \in 1..(j - 1)}

\* the rows of page j whose ticker no earlier page has shown, in table order
FirstShown(r, j) ==
    LET IsNew(rec) == rec.ticker \notin ShownEarlier(r, j)
    IN  SelectSeq(walk[r][j].shown, IsNew)

\* C17: after every turn of the crawl loop the seen set is the set of tickers of
\* the rows held, and the rows kept from page j are the rows read from it whose
\* ticker was on no page read before it: none of them repeats a ticker of an
\* earlier page, while two rows of one page with the same ticker are both kept.
C17_SeenIsTickersOfResult ==
    \A r \in Requests :
        /\ seen[r] = Tickers(all_data[r])
        /\ seen[r] = ShownBefore(r)
        /\ \A j \in 1..Len(walk[r]) :
              /\ walk[r][j].kept = FirstShown(r, j)
              /\ Tickers(walk[r][j].kept) \cap ShownEarlier(r, j) = {}

\* a second page of which one row was kept and one, seen on the first, left out
C17_Witness ==
    \E r \in Requests :
        /\ Len(walk[r]) >= 2
        /\ walk[r][1].kept # <<>>
        /\ walk[r][2].kept # <<>>
        /\ Len(walk[r][2].kept) < Len(walk[r][2].shown)

\* two rows of one page with the same ticker, both kept after an earlier page
TwinsKept ==
    \E r \in Requests :
        /\ Len(walk[r]) >= 2
        /\ walk[r][1].kept # <<>>
        /\ Len(walk[r][2].kept) = 2
        /\ walk[r][2].kept[1].ticker = walk[r][2].kept[2].ticker

Answered(r) == pc[r] = "done" /\ response[r].status \in {200, 500}

\* C18: every run ends, in one response that is a success or a failure, whatever
\* the sources do, endless pages of the HSX endpoint and an HNX site with ever new
\* tickers and an enabled #next included: a request received is answered in the
\* end, a run that is over has its one answer, and an answer given is never
\* replaced.
C18_EveryRunEnds ==
    /\ \A r \in Requests : (pc[r] = "idle") ~> Answered(r)
    /\ [](\A r \in Requests : pc[r] = "done" <=> response[r].status # 0)
    /\ [](\A r \in Requests : response[r].status \in {0, 200, 500})
    /\ [][\A r \in Requests : response[r].status # 0 => response'[r] = response[r]]_vars

\* a run answered after 100 pages of the HSX endpoint and 50 pages of the HNX site
C18_Witness ==
    \E r \in Requests :
        /\ Answered(r)
        /\ env = "endless"
        /\ Len(requests[r]) = 100
        /\ Len(walk[r]) = 50
        /\ response[r].status = 200

NextStepCalls == {"query_selector", "click", "wait_for_selector"}

\* a call of the next step raises in this step
NextStepRaises(r) == fault'[r] # fault[r] /\ fault'[r] \in NextStepCalls

\* C19: an exception raised while #next is looked up or clicked, or while the
\* table is waited for after the click, ends the crawl as a success with exactly
\* the rows of the pages read before: the loop is left for the close, the rows
\* held are neither dropped nor added to, nothing is raised to main_handler, and
\* a successful response lists those rows for HNX.
C19_NextStepErrorKeepsRows ==
    [][\A r \in Requests :
          /\ NextStepRaises(r)
                => /\ pc[r] = "next"
                   /\ pc'[r] = "close"
                   /\ log'[r] = "next_error"
                   /\ all_data[r] = Kept(r)
                   /\ all_data'[r] = all_data[r]
                   /\ walk'[r] = walk[r]
                   /\ response'[r] = response[r]
          /\ log[r] = "next_error"
                => /\ CrawlOver(r) /\ CrawlOver(r)'
                   /\ fault'[r] = fault[r]
                   /\ all_data'[r] = all_data[r]
                   /\ walk'[r] = walk[r]
                   /\ clicks'[r] = clicks[r]
                   /\ response'[r].status = 200 => HnxPart(r)' = ConvertDates(Kept(r))
                   /\ response'[r].status = 500 => response'[r].detail = "ValueError"
      ]_vars

\* a click that raised on the second page, and the rows of both pages returned
C19_Witness ==
    \E r \in Requests :
        /\ fault[r] = "click"
        /\ log[r] = "next_error"
        /\ Len(walk[r]) >= 2
        /\ response[r].status = 200
        /\ HnxPart(r) = ConvertDates(Kept(r))
        /\ Len(HnxPart(r)) >= 2

====
